---- MODULE Spec2Model ----
(***************************************************************************)
(* A model of pmprophet/model.py: the PMProphet forecaster.                *)
(*                                                                         *)
(* Conventions                                                             *)
(*  - Timestamps are integers counting half days since the epoch, so that  *)
(*    a changepoint can lie exactly midway between two daily observations. *)
(*    Observations and forecast dates fall on whole days (even numbers).   *)
(*  - Python strings are sequences of one-character strings, so that       *)
(*    '%s' formatting, startswith, split, float() and int() are computed.  *)
(*  - A seasonality period is a Python number: [float, c100] with c100 the *)
(*    value in hundredths of a day and float telling int from float.       *)
(*  - Parameter values (growth rate, offsets, coefficients) are integers   *)
(*    in units of 0.5, so rate 1.0 is 2 and offset 0.5 is 1.               *)
(*  - np.percentile values are kept multiplied by 100 (exact integers).    *)
(*  - PyMC3 variable names 'growth_<name>' ... share the suffix            *)
(*    '_<name>' of the one model instance; the suffix is dropped.          *)
(***************************************************************************)
EXTENDS Integers, Sequences, FiniteSets, TLC

VARIABLES
    data,          \* self.data: [ds, y, cols]; cols is the ordered list of feature columns
    seasonality,   \* self.seasonality: list of column names
    holidays,      \* self.holidays: list of column names
    regressors,    \* self.regressors: list of column names
    growth,        \* self.growth
    intercept,     \* self.intercept
    changepoints,  \* self.changepoints
    priors,        \* self.priors: [keys, shape]
    modelVars,     \* names registered in self.model (the PyMC3 model)
    bound,         \* self.y as the likelihood 'y_<name>' and 'y_hat_<name>' hold it (or NoExpr)
    trace,         \* self.trace: [keys, seeds, shape, y_hat]
    configured,    \* history: the (period, order) arguments of add_seasonality calls
    out            \* the outcome of the most recent call

vars == <<data, seasonality, holidays, regressors, growth, intercept, changepoints,
          priors, modelVars, bound, trace, configured, out>>

(***************************************************************************)
(* Bounds of the model.                                                    *)
(***************************************************************************)
MaxSeasonalityCalls == 2
MaxHolidays == 1
MaxRegressors == 1
MaxDraws == 2
MaxHorizon == 2

(***************************************************************************)
(* Generic helpers on sequences and integers.                              *)
(***************************************************************************)
Range(s) == {s[i] : i \in 1..Len(s)}

Abs(a) == IF a < 0 THEN -a ELSE a

MaxOf(S) == CHOOSE m \in S : \A e \in S : e <= m

MinOf(S) == CHOOSE m \in S : \A e \in S : m <= e

\* The sequence f with its elements evaluated: the arrays of the program hold values.
Listed(f) == SubSeq(f, 1, Len(f))

RECURSIVE SumSeq(_)
SumSeq(s) == IF s = <<>> THEN 0 ELSE s[1] + SumSeq(Tail(s))

RECURSIVE Insert(_, _)
Insert(s, v) ==
    IF s = <<>> THEN <<v>>
    ELSE IF v < s[1] THEN <<v>> \o s ELSE <<s[1]>> \o Insert(Tail(s), v)

RECURSIVE Sorted(_)
Sorted(s) == IF s = <<>> THEN <<>> ELSE Insert(Sorted(Tail(s)), s[1])

\* All orderings of a finite set, as sequences without repetition.
Orderings(S) ==
    {p \in [1..Cardinality(S) -> S] : \A i, j \in 1..Cardinality(S) : i # j => p[i] # p[j]}

(***************************************************************************)
(* Python strings: '%s' formatting of numbers, split, float(), int().      *)
(***************************************************************************)
DigitChars == <<"0", "1", "2", "3", "4", "5", "6", "7", "8", "9">>

RECURSIVE Digits(_)
Digits(n) ==
    IF n < 10 THEN <<DigitChars[n + 1]>>
    ELSE Digits(n \div 10) \o <<DigitChars[(n % 10) + 1]>>

\* '%s' % number: str(int) has no point, str(float) is the shortest decimal repr.
StrNum(p) ==
    IF ~p.float THEN Digits(p.c100 \div 100)
    ELSE Digits(p.c100 \div 100) \o <<".">> \o
         (IF p.c100 % 10 = 0 THEN Digits((p.c100 % 100) \div 10)
          ELSE Digits((p.c100 % 100) \div 10) \o Digits(p.c100 % 10))

\* 'f_%s_%s' % (seasonality, order_idx)
ColumnName(p, orderIdx) == <<"f", "_">> \o StrNum(p) \o <<"_">> \o Digits(orderIdx)

\* column.startswith("f_")
StartsWithF(name) == Len(name) >= 2 /\ name[1] = "f" /\ name[2] = "_"

RECURSIVE Split(_, _)
\* str.split(sep) for a one-character separator.
Split(s, sep) ==
    IF \A i \in 1..Len(s) : s[i] # sep THEN <<s>>
    ELSE LET k == MinOf({i \in 1..Len(s) : s[i] = sep})
         IN  <<SubSeq(s, 1, k - 1)>> \o Split(SubSeq(s, k + 1, Len(s)), sep)

DigitValue(c) == CHOOSE d \in 0..9 : DigitChars[d + 1] = c

IsDigits(s) == s # <<>> /\ \A i \in 1..Len(s) : \E d \in 0..9 : DigitChars[d + 1] = s[i]

RECURSIVE ParseNat(_)
ParseNat(s) == IF s = <<>> THEN 0 ELSE 10 * ParseNat(SubSeq(s, 1, Len(s) - 1)) + DigitValue(s[Len(s)])

\* int(text): -1 stands for ValueError.
ParseInt(s) == IF IsDigits(s) THEN ParseNat(s) ELSE -1

\* float(text) in hundredths: -1 stands for ValueError (or a value finer than a hundredth).
ParseFloat(s) ==
    LET parts == Split(s, ".")
    IN  IF Len(parts) = 1 /\ IsDigits(parts[1]) THEN 100 * ParseNat(parts[1])
        ELSE IF Len(parts) = 2 /\ IsDigits(parts[1]) /\ IsDigits(parts[2]) /\ Len(parts[2]) <= 2
             THEN 100 * ParseNat(parts[1])
                  + (IF Len(parts[2]) = 1 THEN 10 * ParseNat(parts[2]) ELSE ParseNat(parts[2]))
             ELSE -1

\* float(i.split("_")[1]) of a seasonality column name
PeriodOfName(name) == ParseFloat(Split(name, "_")[2])

(***************************************************************************)
(* The data frame: ds, y and the ordered feature columns.                  *)
(***************************************************************************)
\* The value written for a missing observation (np.nan), never read back.
NaN == -999999

HasColumn(df, name) == \E i \in 1..Len(df.cols) : df.cols[i].name = name

\* self.data[name], for a column that exists
Column(df, name) == df.cols[CHOOSE i \in 1..Len(df.cols) : df.cols[i].name = name].v

\* self.data[name] = values: an existing column keeps its place, a new one goes last.
SetColumn(df, name, values) ==
    IF HasColumn(df, name)
    THEN [df EXCEPT !.cols = [i \in 1..Len(df.cols) |->
              IF df.cols[i].name = name THEN [name |-> name, v |-> values] ELSE df.cols[i]]]
    ELSE [df EXCEPT !.cols = Append(df.cols, [name |-> name, v |-> values])]

\* self.data['y'].mean(); the series of the model have an integral mean.
Mean(s) == SumSeq(s) \div Len(s)

(***************************************************************************)
(* fourier_series: sin and cos of 2*pi*(i+1)*t/period, t in days.          *)
(* For the periods of the model (0.5, 1, 2 and 4 days) and whole-day       *)
(* timestamps the angle is a whole number of quarter turns, so the values  *)
(* are exactly -1, 0 or 1.                                                 *)
(***************************************************************************)
QuarterTurns(ts, c100, i) == (200 * (i + 1) * ts) \div c100

SinQ(q) == <<0, 1, 0, -1>>[(q % 4) + 1]

CosQ(q) == <<1, 0, -1, 0>>[(q % 4) + 1]

\* Column c (from 0) of the matrix: sin_1, cos_1, sin_2, cos_2, ...
fourier_series(dates, c100, c) ==
    Listed([k \in 1..Len(dates) |->
        IF c % 2 = 0 THEN SinQ(QuarterTurns(dates[k], c100, c \div 2))
        ELSE CosQ(QuarterTurns(dates[k], c100, c \div 2))])

(***************************************************************************)
(* PMProphet objects: __init__ and the add_* operations.                   *)
(***************************************************************************)
EmptyShape == [seasonality |-> 0, holidays |-> 0, regressors |-> 0, changepoints |-> 0]

EmptyPriors == [keys |-> {}, shape |-> EmptyShape]

EmptyTrace == [keys |-> {}, seeds |-> <<>>, shape |-> EmptyShape, y_hat |-> <<>>]

\* PMProphet(data, growth, intercept, model, name) with the default changepoints
PMProphetInit(df, g, ic) ==
    [data |-> [ds |-> df.ds, y |-> df.y, cols |-> df.cols],
     seasonality |-> <<>>, holidays |-> <<>>, regressors |-> <<>>,
     growth |-> g, intercept |-> ic, changepoints |-> <<>>,
     priors |-> EmptyPriors, trace |-> EmptyTrace]

RECURSIVE AddColumns(_, _, _, _)
\* for order_idx in range(fourier_order): self.data[name] = fourier_series[:, order_idx]
AddColumns(df, p, fourierOrder, orderIdx) ==
    IF orderIdx >= fourierOrder THEN df
    ELSE AddColumns(SetColumn(df, ColumnName(p, orderIdx), fourier_series(df.ds, p.c100, orderIdx)),
                    p, fourierOrder, orderIdx + 1)

add_seasonality(obj, p, fourierOrder) ==
    [obj EXCEPT
        !.seasonality = obj.seasonality \o [k \in 1..fourierOrder |-> ColumnName(p, k - 1)],
        !.data = AddColumns(obj.data, p, fourierOrder, 0)]

add_holiday(obj, name, dateStart, dateEnd) ==
    [obj EXCEPT
        !.data = SetColumn(obj.data, name,
                    [k \in 1..Len(obj.data.ds) |->
                        (IF obj.data.ds[k] > dateStart /\ obj.data.ds[k] < dateEnd THEN 1 ELSE 0)
                        * Mean(obj.data.y)]),
        !.holidays = Append(obj.holidays, name)]

add_regressor(obj, name, regressor) ==
    [obj EXCEPT
        !.regressors = Append(obj.regressors, name),
        !.data = IF regressor # <<>> THEN SetColumn(obj.data, name, regressor) ELSE obj.data]

(***************************************************************************)
(* generate_priors: one prior per enabled component, declared once.        *)
(* Each pm.<Family>(name, ...) call also registers the name in the PyMC3   *)
(* model.                                                                  *)
(***************************************************************************)
PriorsToDeclare(obj) ==
    {k \in {"sigma", "seasonality", "holidays", "regressors", "growth", "changepoints", "intercept"} :
        /\ k \notin obj.priors.keys
        /\ CASE k = "sigma" -> TRUE
             [] k = "seasonality" -> obj.seasonality # <<>>
             [] k = "holidays" -> obj.holidays # <<>>
             [] k = "regressors" -> obj.regressors # <<>>
             [] k = "growth" -> obj.growth
             [] k = "changepoints" -> obj.growth /\ Len(obj.changepoints) # 0
             [] k = "intercept" -> obj.intercept}

generate_priors(obj) ==
    LET new == PriorsToDeclare(obj)
    IN  [keys |-> obj.priors.keys \cup new,
         shape |-> [k \in DOMAIN obj.priors.shape |->
                      IF k \in new
                      THEN CASE k = "seasonality" -> Len(obj.seasonality)
                             [] k = "holidays" -> Len(obj.holidays)
                             [] k = "regressors" -> Len(obj.regressors)
                             [] k = "changepoints" -> Len(obj.changepoints)
                      ELSE obj.priors.shape[k]]]

(***************************************************************************)
(* fit_growth.                                                             *)
(***************************************************************************)
\* The indices (from 0) at which |ds - c| is least.
Nearest(ds, c) ==
    {i \in 0..(Len(ds) - 1) : \A j \in 0..(Len(ds) - 1) : Abs(ds[i + 1] - c) <= Abs(ds[j + 1] - c)}

\* (self.data['ds'] - c).abs().argsort()[:1]: argsort defaults to kind='quicksort',
\* which is not stable, so among equally near timestamps either index may come first.
ArgsortFirst(ds, c) == Nearest(ds, c)

\* s = [... for i in self.changepoints]: every list the selection can produce.
ChangepointIndices(ds, cps) ==
    {s \in [1..Len(cps) -> 0..(Len(ds) - 1)] : \A k \in 1..Len(cps) : s[k] \in ArgsortFirst(ds, cps[k])}

\* local_growth = (g + d(i - 1) if i else 0): the conditional binds loosest.
local_growth(i, g, d) == IF i # 0 THEN g + d[i] ELSE 0

\* local_x = (x - s[i - 1] if i else 0)
local_x(i, x, s) == IF i # 0 THEN x - s[i] ELSE 0

\* local_cond = (x > s[i - 1] if i else 0)
local_cond(i, x, s) == IF i # 0 THEN (IF x > s[i] THEN 1 ELSE 0) ELSE 0

local_regression(i, x, s, g, d) == local_growth(i, g, d) * local_x(i, x, s) * local_cond(i, x, s)

RECURSIVE SumSegments(_, _, _, _, _)
\* np.sum(output, axis=0) over i in range(len(s) + 1), at one index x and one draw
SumSegments(i, x, s, g, d) ==
    IF i > Len(s) THEN 0
    ELSE local_regression(i, x, s, g, d) + SumSegments(i + 1, x, s, g, d)

\* The value of fit_growth at series index x (from 0) for one rate g and offsets d;
\* in prior mode g and d are the prior variables, in posterior mode one draw of them.
fit_growth(x, s, g, d) == IF s = <<>> THEN x * g ELSE SumSegments(0, x, s, g, d)

(***************************************************************************)
(* Posterior draws. The Inference Engine is PyMC3; a draw is identified by *)
(* a seed, and the value of every parameter in that draw is a fixed        *)
(* function of the seed.                                                   *)
(***************************************************************************)
Seeds == 1..MaxDraws

\* The sample set pm.sample returns for a number of draws: draw i has seed i.
PosteriorChoices(draws) == {[i \in 1..draws |-> i]}

GrowthDraw(seed) == seed + 1

ChangepointDraw(seed, i) == IF i % 2 = 1 THEN seed ELSE -seed

RECURSIVE Pow3(_)
Pow3(j) == IF j = 0 THEN 1 ELSE 3 * Pow3(j - 1)

\* coefficient j (from 0) of the seasonality vector
SeasonalityDraw(seed, j) == seed * Pow3(j)

HolidayDraw(seed, j) == 5 * seed + j

RegressorDraw(seed, j) == 7 * seed + j

InterceptDraw(seed) == 10 * seed

\* trace['changepoints_<name>'][draw, :]
OffsetsOf(seed, n) == Listed([i \in 1..n |-> ChangepointDraw(seed, i)])

(***************************************************************************)
(* _prepare_fit: the latent mean self.y, an expression over the priors.    *)
(* The expression keeps the feature values it was built from.              *)
(***************************************************************************)
NoExpr == [built |-> FALSE, n |-> 0, intercept |-> FALSE, growth |-> FALSE, s |-> <<>>,
           regressors |-> <<>>, holidays |-> <<>>, seasonality |-> <<>>]

\* self.priors[group][idx] for idx, name in enumerate(list): IndexError when the
\* prior vector is shorter than the list.
IndexErrorInPrepare(obj, pri) ==
    \/ Len(obj.regressors) > pri.shape.regressors
    \/ Len(obj.holidays) > pri.shape.holidays
    \/ Len(obj.seasonality) > pri.shape.seasonality
    \/ (obj.growth /\ Len(obj.changepoints) > pri.shape.changepoints)

\* self.y = y + regressors + holidays + seasonality, with s the changepoint indices
\* fit_growth selected.
AssembleY(obj, s) ==
    [built |-> TRUE, n |-> Len(obj.data.ds),
     intercept |-> obj.intercept, growth |-> obj.growth,
     s |-> IF obj.growth THEN s ELSE <<>>,
     regressors |-> [k \in 1..Len(obj.regressors) |-> Column(obj.data, obj.regressors[k])],
     holidays |-> [k \in 1..Len(obj.holidays) |-> Column(obj.data, obj.holidays[k])],
     seasonality |-> [k \in 1..Len(obj.seasonality) |-> Column(obj.data, obj.seasonality[k])]]

\* The value of the expression at position pos (from 1) under the draw of one seed.
EvalY(e, pos, seed) ==
    (IF e.intercept THEN InterceptDraw(seed) ELSE 0)
    + (IF e.growth THEN fit_growth(pos - 1, e.s, GrowthDraw(seed), OffsetsOf(seed, Len(e.s))) ELSE 0)
    + SumSeq([k \in 1..Len(e.regressors) |-> RegressorDraw(seed, k - 1) * e.regressors[k][pos]])
    + SumSeq([k \in 1..Len(e.holidays) |-> HolidayDraw(seed, k - 1) * e.holidays[k][pos]])
    + SumSeq([k \in 1..Len(e.seasonality) |-> e.seasonality[k][pos] * SeasonalityDraw(seed, k - 1)])

(***************************************************************************)
(* The model instance and the inputs of its operations.                    *)
(***************************************************************************)
SelfObj ==
    [data |-> data, seasonality |-> seasonality, holidays |-> holidays, regressors |-> regressors,
     growth |-> growth, intercept |-> intercept, changepoints |-> changepoints,
     priors |-> priors, trace |-> trace]

\* Observation series: four consecutive days ending on a week boundary, and three
\* days two apart ending off it.
SeriesChoices ==
    {[ds |-> <<8, 10, 12, 14>>, y |-> <<2, 4, 6, 4>>, cols |-> <<>>],
     [ds |-> <<4, 8, 12>>, y |-> <<1, 2, 3>>, cols |-> <<>>]}

\* Explicit changepoint lists: none, one (on an observation of the first series,
\* midway between two observations of the second), two.
ChangepointChoices == {<<>>, <<10>>, <<8, 12>>}

\* add_seasonality arguments: period 2 (an int) with order 2, period 4.0 (a float)
\* with order 1.
SeasonalityChoices ==
    {[period |-> [float |-> FALSE, c100 |-> 200], order |-> 2],
     [period |-> [float |-> TRUE, c100 |-> 400], order |-> 1]}

\* The call orders explored: the add_* operations come before the model is assembled
\* (before generate_priors has declared anything).
Configuring == priors.keys = {}

HolidayName == <<"h", "o", "l">>

RegressorName == <<"r", "e", "g">>

\* out when the most recent call was none of finalize_model, fit and predict
NoCall == [op |-> "none", status |-> "ok"]


Init ==
    /\ data \in SeriesChoices
    /\ seasonality = <<>>
    /\ holidays = <<>>
    /\ regressors = <<>>
    /\ growth \in BOOLEAN
    /\ intercept \in BOOLEAN
    /\ changepoints \in IF growth THEN ChangepointChoices ELSE {<<>>}
    /\ priors = EmptyPriors
    /\ modelVars = {}
    /\ bound = NoExpr
    /\ trace = EmptyTrace
    /\ configured = <<>>
    /\ out = NoCall

SetSelf(obj) ==
    /\ data' = obj.data
    /\ seasonality' = obj.seasonality
    /\ holidays' = obj.holidays
    /\ regressors' = obj.regressors
    /\ growth' = obj.growth
    /\ intercept' = obj.intercept
    /\ changepoints' = obj.changepoints
    /\ priors' = obj.priors
    /\ trace' = obj.trace

AddSeasonality ==
    /\ Configuring
    /\ Len(configured) < MaxSeasonalityCalls
    /\ \E c \in SeasonalityChoices :
          /\ \E r \in {add_seasonality(SelfObj, c.period, c.order)} : SetSelf(r)
          /\ configured' = Append(configured, c)
    /\ out' = NoCall
    /\ UNCHANGED <<modelVars, bound>>

AddHoliday ==
    /\ Configuring
    /\ Len(holidays) < MaxHolidays
    /\ \E r \in {add_holiday(SelfObj, HolidayName, 9, 13)} : SetSelf(r)
    /\ out' = NoCall
    /\ UNCHANGED <<modelVars, bound, configured>>

AddRegressor ==
    /\ Configuring
    /\ Len(regressors) < MaxRegressors
    /\ \E r \in {add_regressor(SelfObj, RegressorName, [k \in 1..Len(data.ds) |-> k])} : SetSelf(r)
    /\ out' = NoCall
    /\ UNCHANGED <<modelVars, bound, configured>>

(***************************************************************************)
(* finalize_model: _prepare_fit, then the likelihood 'y_<name>' and the    *)
(* deterministic 'y_hat_<name>'. The PyMC3 model refuses a name it already *)
(* holds (ValueError), and what ran before the refusal stays done.         *)
(* self.y is read only here, right after _prepare_fit has set it; the      *)
(* model keeps the value the likelihood was bound to.                      *)
(* The result is [priors, modelVars, bound, error].                        *)
(***************************************************************************)
\* pm.Deterministic('<group>_hat_<name>', ...) in the order of the code
Deterministics(obj) ==
    (IF obj.seasonality # <<>> THEN <<"seasonality_hat">> ELSE <<>>)
    \o (IF obj.regressors # <<>> THEN <<"regressors_hat">> ELSE <<>>)
    \o (IF obj.holidays # <<>> THEN <<"holidays_hat">> ELSE <<>>)

finalize_model(obj, mv, boundNow, s) ==
    LET pri == generate_priors(obj)
        mv1 == mv \cup pri.keys
        dets == Deterministics(obj)
        dup == {k \in 1..Len(dets) : dets[k] \in mv1}
        registered == IF dup = {} THEN Range(dets)
                      ELSE {dets[k] : k \in 1..(MinOf(dup) - 1)}
        obj1 == [obj EXCEPT !.priors = pri]
    IN  IF IndexErrorInPrepare(obj, pri)
        THEN [priors |-> pri, modelVars |-> mv1, bound |-> boundNow, error |-> "IndexError"]
        ELSE IF dup # {}
        THEN [priors |-> pri, modelVars |-> mv1 \cup registered, bound |-> boundNow,
              error |-> "ValueError"]
        ELSE IF "y" \in mv1
        THEN [priors |-> pri, modelVars |-> mv1 \cup registered, bound |-> boundNow,
              error |-> "ValueError"]
        ELSE [priors |-> pri, modelVars |-> mv1 \cup registered \cup {"y", "y_hat"},
              bound |-> AssembleY(obj1, s), error |-> ""]

FinalizeModel ==
    \E s \in ChangepointIndices(data.ds, changepoints) :
        \E r \in {finalize_model(SelfObj, modelVars, bound, s)} :
            /\ priors' = r.priors
            /\ modelVars' = r.modelVars
            /\ bound' = r.bound
            /\ out' = [op |-> "finalize_model", status |-> IF r.error = "" THEN "ok" ELSE "error"]
            /\ UNCHANGED <<data, seasonality, holidays, regressors, growth, intercept,
                           changepoints, trace, configured>>

(***************************************************************************)
(* fit, with method 'NUTS' or 'Metropolis' and no MAP initialization.      *)
(* pm.sample returns one value of every free variable and deterministic    *)
(* of the PyMC3 model per draw; a model without free variables cannot be   *)
(* sampled.                                                                *)
(***************************************************************************)
\* The samples of 'y_hat_<name>': the bound mean under every draw.
YHatSamples(e, seeds) ==
    [pos \in 1..e.n |-> [d \in 1..Len(seeds) |-> EvalY(e, pos, seeds[d])]]

Sample(mv, pri, e, seeds) ==
    [keys |-> mv \ {"y"}, seeds |-> seeds, shape |-> pri.shape,
     y_hat |-> IF "y_hat" \in mv THEN YHatSamples(e, seeds) ELSE <<>>]

\* The outcome of fit: whether it raised, whether it reached pm.sample and whether
\* the likelihood was bound when it did.
FitOutcome(status, invoked, likelihood) ==
    [op |-> "fit", status |-> status, invoked |-> invoked, likelihood |-> likelihood]

Fit ==
    \E draws \in 0..MaxDraws, finalize \in BOOLEAN,
       s \in ChangepointIndices(data.ds, changepoints) :
        \E r \in {IF finalize THEN finalize_model(SelfObj, modelVars, bound, s)
                  ELSE [priors |-> priors, modelVars |-> modelVars, bound |-> bound, error |-> ""]} :
            /\ priors' = r.priors
            /\ modelVars' = r.modelVars
            /\ bound' = r.bound
            /\ IF r.error # ""
               THEN /\ trace' = trace
                    /\ out' = FitOutcome("error", FALSE, FALSE)
               ELSE IF draws = 0
               THEN /\ trace' = trace
                    /\ out' = FitOutcome("ok", FALSE, FALSE)
               ELSE IF r.modelVars = {}
               THEN /\ trace' = trace
                    /\ out' = FitOutcome("error", TRUE, "y" \in r.modelVars)
               ELSE /\ \E seeds \in PosteriorChoices(draws) :
                          trace' = Sample(r.modelVars, r.priors, r.bound, seeds)
                    /\ out' = FitOutcome("ok", TRUE, "y" \in r.modelVars)
            /\ UNCHANGED <<data, seasonality, holidays, regressors, growth, intercept,
                           changepoints, configured>>

(***************************************************************************)
(* predict.                                                                *)
(***************************************************************************)
\* 'D': a tick frequency of one day; 'W': weekly, anchored on a week boundary.
Freqs == {[step |-> 2, anchored |-> FALSE], [step |-> 14, anchored |-> TRUE]}

\* alpha, in hundredths
Alphas == {5}

\* np.random.normal(0, sigma): one value per draw
NoiseValues == {-1, 1}

\* pd.date_range(start, periods, freq): a tick frequency starts at start itself, an
\* anchored one at the first anchor at or after start.
date_range(start, periods, freq) ==
    LET first == IF freq.anchored THEN ((start + freq.step - 1) \div freq.step) * freq.step
                 ELSE start
    IN  [k \in 1..periods |-> first + (k - 1) * freq.step]

\* A variant of DropStart that keeps the start date (the filter left out).
KeepStart(dates, lastDate) == dates

\* dates[dates > last_date]
DropStart(dates, lastDate) == SelectSeq(dates, LAMBDA t : t > lastDate)

\* dates[:forecasting_periods]
FirstN(dates, n) == SubSeq(dates, 1, IF Len(dates) < n THEN Len(dates) ELSE n)

ForecastDates(lastDate, n, freq) == FirstN(DropStart(date_range(lastDate, n + 1, freq), lastDate), n)

\* new_df: 'y' is assigned first and fixes the length of the frame.
NewDf(df, dates, n, includeHistory) ==
    IF includeHistory
    THEN [y |-> df.y \o [k \in 1..n |-> NaN], ds |-> df.ds \o dates, cols |-> <<>>]
    ELSE [y |-> [k \in 1..n |-> 0], ds |-> dates, cols |-> <<>>]

\* The periods dictionary: for every column starting with "f_", in column order,
\* period, order = column[2:].split("_"). A list of [key, orders], keys in the
\* order of first insertion.
FeatureColumns(df) == SelectSeq([k \in 1..Len(df.cols) |-> df.cols[k].name], StartsWithF)

NameParts(name) == Split(SubSeq(name, 3, Len(name)), "_")

Unparseable(names) ==
    \E k \in 1..Len(names) : Len(NameParts(names[k])) # 2 \/ ParseInt(NameParts(names[k])[2]) < 0

RECURSIVE DictKeys(_, _)
DictKeys(names, seen) ==
    IF names = <<>> THEN <<>>
    ELSE LET key == NameParts(names[1])[1]
         IN  IF key \in seen THEN DictKeys(Tail(names), seen)
             ELSE <<key>> \o DictKeys(Tail(names), seen \cup {key})

ParsePeriods(names) ==
    LET keys == DictKeys(names, {})
    IN  [k \in 1..Len(keys) |->
            [key |-> keys[k],
             orders |-> LET mine == SelectSeq(names, LAMBDA nm : NameParts(nm)[1] = keys[k])
                        IN  [j \in 1..Len(mine) |-> ParseInt(NameParts(mine[j])[2])]]]

\* A variant of OrderCount that takes the largest index for the count.
LargestIndex(orders) == MaxOf(Range(orders))

\* fourier_order = max(orders) + 1
OrderCount(orders) == MaxOf(Range(orders)) + 1

\* A variant of Receiver: the loop calls add_seasonality of the original.
ReceiverSelf == "self"

\* The object whose add_seasonality the loop calls: m.
Receiver == "m"

RECURSIVE Regenerate(_, _, _)
\* for period, orders in periods.items(): m.add_seasonality(float(period), max(orders) + 1)
Regenerate(store, items, k) ==
    IF k > Len(items) THEN store
    ELSE Regenerate(
            [store EXCEPT ![Receiver] =
                add_seasonality(store[Receiver],
                                [float |-> TRUE, c100 |-> ParseFloat(items[k].key)],
                                OrderCount(items[k].orders))],
            items, k + 1)

\* The distinct numeric periods of a seasonality list
PeriodSet(names) == {PeriodOfName(names[k]) : k \in 1..Len(names)}

RECURSIVE ColumnsInOrder(_, _, _)
\* fit_seasonality's two loops: for each period of the list `order`, the columns of
\* that period in list order. Coefficient idx multiplies the idx-th column visited.
ColumnsInOrder(names, order, k) ==
    IF k > Len(order) THEN <<>>
    ELSE SelectSeq(names, LAMBDA nm : PeriodOfName(nm) = order[k])
         \o ColumnsInOrder(names, order, k + 1)

\* ts.sum(axis=0) at one position and one draw
fit_seasonality(df, visited, pos, seed) ==
    SumSeq([k \in 1..Len(visited) |-> SeasonalityDraw(seed, k - 1) * Column(df, visited[k])[pos]])

\* np.percentile(a, q) with linear interpolation, multiplied by 100
Percentile(a, q) ==
    IF a = <<>> THEN NaN
    ELSE LET v == Sorted(a)
             rank == q * (Len(a) - 1)
             lo == (rank \div 100) + 1
         IN  IF rank % 100 = 0 THEN 100 * v[lo]
             ELSE 100 * v[lo] + (rank % 100) * (v[lo + 1] - v[lo])

\* The derived model m and the original, as lines 325-346 leave them: m is built on
\* new_df, takes the changepoints, gets its seasonality regenerated from the parsed
\* names, and shares the priors and the trace of the original.
DerivedModel(obj, newDf, parsed) ==
    LET m0 == [PMProphetInit(newDf, obj.growth, obj.intercept)
                 EXCEPT !.changepoints = obj.changepoints]
    IN  Regenerate([self |-> obj, m |-> m0], parsed, 1)

\* y_hat = m.fit_growth(prior=False): the matrix [series index x draw]
Trend(n, seeds, shape, s) ==
    Listed([pos \in 1..n |-> Listed([d \in 1..Len(seeds) |->
        fit_growth(pos - 1, s, GrowthDraw(seeds[d]), OffsetsOf(seeds[d], shape.changepoints))])])

\* y_hat after the seasonality and the intercept have been added
YHat(df, seeds, trend, visited) ==
    Listed([pos \in 1..Len(df.ds) |-> Listed([d \in 1..Len(seeds) |->
        trend[pos][d] + fit_seasonality(df, visited, pos, seeds[d]) + InterceptDraw(seeds[d])])])

\* The frame: percentiles over the draws, row by row
Frame(ds, y_hat, noise, alpha) ==
    [pos \in 1..Len(ds) |->
        LET y_hat_noised == Listed([d \in 1..Len(noise) |-> y_hat[pos][d] + noise[d]])
        IN  [y_hat |-> Percentile(y_hat[pos], 50),
             y_high |-> Percentile(y_hat_noised, 100 - (alpha \div 2)),
             y_low |-> Percentile(y_hat_noised, alpha \div 2),
             ds |-> ds[pos]]]

\* A variant of Missing in which every lookup finds a value.
NeverMissing(tr, key) == FALSE

\* self.trace[key] raises KeyError when the trace holds no such variable.
Missing(tr, key) == key \notin tr.keys

NoRequest == [n |-> 0, freq |-> [step |-> 0, anchored |-> FALSE], include_history |-> FALSE,
              alpha |-> 0]

\* The call raises: no frame. The model object is left as the call made it.
Raise(obj, err, parsed) ==
    /\ SetSelf(obj)
    /\ out' = [op |-> "predict", status |-> "error", error |-> err, req |-> NoRequest,
               parsed |-> parsed, mds |-> <<>>, s |-> <<>>, trend |-> <<>>, visited |-> <<>>,
               ddf |-> <<>>]

\* The requests of the model: horizon, frequency, history, alpha; extra_data is None
\* and plot is False.
Requests ==
    [n : 1..MaxHorizon, freq : Freqs, include_history : BOOLEAN, alpha : Alphas]

\* predict. The periods dictionary is iterated in insertion order (as dictionaries
\* are from Python 3.6 on); the set of periods in fit_seasonality is iterated in an
\* order the language leaves open. predict reads nothing of out and leaves a model
\* state from which the next call would have the same outcomes, so a run of
\* consecutive calls is explored through its first call.
Predict ==
    /\ out.op # "predict"
    /\ \E req \in Requests :
       \E newDf \in {NewDf(data, ForecastDates(MaxOf(Range(data.ds)), req.n, req.freq),
                           req.n, req.include_history)} :
       \E names \in {FeatureColumns(data)} :
         IF Len(newDf.ds) # Len(newDf.y) \/ Unparseable(names)
         THEN Raise(SelfObj, "ValueError", <<>>)
         ELSE
         \E parsed \in {ParsePeriods(names)} :
           IF \E k \in 1..Len(parsed) : ParseFloat(parsed[k].key) < 0
           THEN Raise(SelfObj, "ValueError", <<>>)
           ELSE
           \E store \in {DerivedModel(SelfObj, newDf, parsed)} :
           \E m \in {store.m} :
           \E tr \in {store.self.trace} :
             IF Missing(tr, "growth")
             THEN Raise(store.self, "KeyError", parsed)
             ELSE IF m.changepoints # <<>> /\ Missing(tr, "changepoints")
             THEN Raise(store.self, "KeyError", parsed)
             ELSE IF Len(m.changepoints) > tr.shape.changepoints
             THEN Raise(store.self, "IndexError", parsed)
             ELSE IF Missing(tr, "seasonality")
             THEN Raise(store.self, "KeyError", parsed)
             ELSE IF Len(m.seasonality) > tr.shape.seasonality
             THEN Raise(store.self, "IndexError", parsed)
             ELSE IF Missing(tr, "intercept") \/ Missing(tr, "sigma")
             THEN Raise(store.self, "KeyError", parsed)
             ELSE
             \E s \in ChangepointIndices(m.data.ds, m.changepoints) :
             \E trend \in {Trend(Len(m.data.ds), tr.seeds, tr.shape, s)} :
             \E setOrder \in Orderings(PeriodSet(m.seasonality)) :
             \E visited \in {ColumnsInOrder(m.seasonality, setOrder, 1)} :
             \E y_hat \in {YHat(m.data, tr.seeds, trend, visited)} :
             \E noise \in [1..Len(tr.seeds) -> NoiseValues] :
                /\ SetSelf(store.self)
                /\ out' = [op |-> "predict", status |-> "ok", error |-> "", req |-> req,
                           parsed |-> parsed, mds |-> m.data.ds, s |-> s, trend |-> trend,
                           visited |-> visited,
                           ddf |-> Frame(m.data.ds, y_hat, noise, req.alpha)]
    /\ UNCHANGED <<modelVars, bound, configured>>

Next ==
    \/ AddSeasonality
    \/ AddHoliday
    \/ AddRegressor
    \/ FinalizeModel
    \/ Fit
    \/ Predict

Spec == Init /\ [][Next]_vars

(***************************************************************************)
(* Properties.                                                             *)
(***************************************************************************)
PredictReturned == out.op = "predict" /\ out.status = "ok"

LastObserved == MaxOf(Range(data.ds))

\* C1: with one changepoint anchored at index s, the posterior trend that predict
\* takes from fit_growth is, for every draw (rate g, offset d) and every index x,
\* g*x + (g+d)*(x-s) where x > s and g*x where x <= s.
C1_SegmentTrend ==
    (PredictReturned /\ Len(changepoints) = 1) =>
        \A pos \in 1..Len(out.trend) : \A d \in 1..Len(trace.seeds) :
            LET x == pos - 1
                g == GrowthDraw(trace.seeds[d])
                delta == ChangepointDraw(trace.seeds[d], 1)
            IN  out.trend[pos][d] =
                    g * x + (IF x > out.s[1] THEN (g + delta) * (x - out.s[1]) ELSE 0)

\* C2: every row of the frame predict returns has y_low <= y_hat <= y_high.
C2_IntervalOrder ==
    PredictReturned =>
        \A k \in 1..Len(out.ddf) :
            out.ddf[k].y_low <= out.ddf[k].y_hat /\ out.ddf[k].y_hat <= out.ddf[k].y_high

\* predict visited the seasonality columns in the order of the original list
SamePairing ==
    \A k \in 1..Len(out.visited) :
        /\ k <= Len(seasonality)
        /\ PeriodOfName(out.visited[k]) = PeriodOfName(seasonality[k])
        /\ Split(out.visited[k], "_")[3] = Split(seasonality[k], "_")[3]

\* C3: with include_history, the point estimate y_hat of every historical row is the
\* 50th percentile of the fitted latent mean samples (y_hat_<name>) of that row; stated
\* for the calls that select the changepoint indices of the fit and visit as many
\* seasonality columns as the fit used, in the order of the fit.
C3_HistoryMatchesFit ==
    (PredictReturned /\ out.req.include_history /\ "y_hat" \in trace.keys
        /\ out.s = bound.s /\ SamePairing /\ Len(out.visited) = Len(seasonality)) =>
        \A pos \in 1..Len(data.ds) :
            out.ddf[pos].y_hat = Percentile(trace.y_hat[pos], 50)

\* C4: whenever predict has parsed the feature-column names, every add_seasonality(P, K)
\* call made has a parsed entry of the same numeric period whose order count
\* (max order index + 1) is at least the largest K configured for that period, and
\* every parsed (period, order index) belongs to a call made; the parse never fails.
C4_NameRoundTrip ==
    out.op = "predict" =>
        /\ out.error # "ValueError"
        /\ \A i \in 1..Len(configured) :
              \E k \in 1..Len(out.parsed) :
                 /\ ParseFloat(out.parsed[k].key) = configured[i].period.c100
                 /\ OrderCount(out.parsed[k].orders) >= configured[i].order
        /\ \A k \in 1..Len(out.parsed) : \A j \in 1..Len(out.parsed[k].orders) :
              \E i \in 1..Len(configured) :
                 /\ ParseFloat(out.parsed[k].key) = configured[i].period.c100
                 /\ out.parsed[k].orders[j] < configured[i].order

\* C4 witness: predict has returned for a model configured with two calls of
\* different periods, one period an int and one a float.
C4_TwoPeriodsParsed ==
    /\ PredictReturned
    /\ Len(configured) = 2
    /\ configured[1].period.c100 # configured[2].period.c100
    /\ Len(out.parsed) = 2

\* C5: a predict call made while the Posterior Sample Set is empty raises and
\* returns no frame.
C5_EmptyTraceRaises ==
    (out.op = "predict" /\ trace.keys = {}) => (out.status = "error" /\ out.ddf = <<>>)

\* C5 witness: predict has raised on a model with growth, intercept and seasonality
\* whose priors are declared (fit ran with draws=0) and whose trace is empty.
C5_RaisedOnEmptyTrace ==
    /\ out.op = "predict" /\ out.status = "error"
    /\ trace.keys = {}
    /\ growth /\ intercept /\ seasonality # <<>>
    /\ priors.keys # {}

\* C6: whenever fit reaches the Inference Engine (pm.sample), the observation
\* likelihood is already bound to the model.
C6_LikelihoodBeforeEngine ==
    (out.op = "fit" /\ out.invoked) => out.likelihood

\* C7: the index fit_growth computes for each changepoint is the smallest index
\* among those nearest to it.
C7_StableNearest ==
    PredictReturned =>
        /\ Len(out.s) = Len(changepoints)
        /\ \A k \in 1..Len(changepoints) :
              out.s[k] = MinOf(Nearest(out.mds, changepoints[k]))

\* C8: the frame predict returns has n rows without history and len(series) + n rows
\* with it, and its last n timestamps are strictly increasing and all after the last
\* observed timestamp.
C8_RowsAndDates ==
    PredictReturned =>
        LET n == out.req.n
            rows == Len(out.ddf)
        IN  /\ rows = (IF out.req.include_history THEN Len(data.ds) + n ELSE n)
            /\ \A k \in (rows - n + 1)..rows :
                  /\ out.ddf[k].ds > LastObserved
                  /\ k > rows - n + 1 => out.ddf[k - 1].ds < out.ddf[k].ds
            /\ out.req.include_history =>
                  \A k \in 1..Len(data.ds) : out.ddf[k].ds = data.ds[k]

\* C8 witness: predict has returned two forecast rows without history at the weekly
\* frequency for a series that ends on a week boundary.
C8_AnchoredOnBoundary ==
    /\ PredictReturned
    /\ out.req.n = 2 /\ out.req.freq.anchored /\ ~out.req.include_history
    /\ LastObserved % out.req.freq.step = 0

\* C9: a predict call leaves data, the seasonality, holiday and regressor lists, the
\* switches, the Changepoint Set, the Prior Declarations and the Posterior Sample Set
\* of the original model as they were.
C9_PredictLeavesModel ==
    [][out'.op = "predict" =>
          UNCHANGED <<data, seasonality, holidays, regressors, growth, intercept,
                      changepoints, priors, trace>>]_vars

\* C9 witness: predict has returned for a fitted model with seasonality, a holiday
\* and a regressor, after regenerating the seasonality on the derived model.
C9_PredictedWithFeatures ==
    /\ PredictReturned
    /\ Len(out.visited) > 0
    /\ holidays # <<>> /\ regressors # <<>>

\* C10: the idx-th column fit_seasonality visits in predict has the period and the
\* order index of the idx-th name of the original seasonality list, whose
\* coefficient the fit used at index idx.
C10_CoefficientPairing == PredictReturned => SamePairing

\* C11: the trend samples predict computes for the future timestamps without history
\* are those it computes for the same timestamps with history, that is on the axis
\* of the observations followed by the forecast dates, for some selection of the
\* changepoint indices on that axis.
C11_TrendAlignedWithHistory ==
    (PredictReturned /\ ~out.req.include_history /\ changepoints # <<>>) =>
        \E sHist \in ChangepointIndices(data.ds \o out.mds, changepoints) :
            \A k \in 1..Len(out.mds) : \A d \in 1..Len(trace.seeds) :
                out.trend[k][d] =
                    Trend(Len(data.ds) + Len(out.mds), trace.seeds, trace.shape, sHist)
                        [Len(data.ds) + k][d]
====
